---- MODULE Spec2Model ----
(***************************************************************************)
(* The RegisterOrder page (cadastrar-pedido/page.tsx): the React state of  *)
(* the component, its event handlers, its four useEffect hooks and the     *)
(* postOrder request flow.                                                 *)
(*                                                                         *)
(* React semantics modelled: a handler's setState calls are batched and    *)
(* become visible together; after the render that follows, the effects     *)
(* whose dependency values differ from the previous render run in          *)
(* declaration order, all of them reading the values of that render; their *)
(* setState calls schedule the next render.  A user event is dispatched    *)
(* only when no render is pending (React flushes discrete events           *)
(* synchronously).                                                         *)
(*                                                                         *)
(* Numbers are JavaScript numbers restricted to integers plus NaN:         *)
(* [nan |-> BOOLEAN, v |-> Int].  A currency string is modelled by what it *)
(* denotes: the empty string, the text "NaN", or an amount.                *)
(***************************************************************************)
EXTENDS Integers, Sequences, FiniteSets, TLC

\* ------------------------------------------------------------ bounds
MaxIds == 2            \* number of items ever added (uuid() values drawn)
MaxSubmits == 1        \* submit events explored
MaxEditsInFlight == 0  \* user events explored while a request is in flight

\* ------------------------------------------------------------ numbers
NaN == [nan |-> TRUE, v |-> 0]

Num(n) == [nan |-> FALSE, v |-> n]

NumAdd(a, b) == IF a.nan \/ b.nan THEN NaN ELSE Num(a.v + b.v)

NumSub(a, b) == IF a.nan \/ b.nan THEN NaN ELSE Num(a.v - b.v)

NumMul(a, b) == IF a.nan \/ b.nan THEN NaN ELSE Num(a.v * b.v)

\* JavaScript truthiness of a number: neither 0 nor NaN
Truthy(a) == ~a.nan /\ a.v # 0

\* a > 0 in JavaScript: false for NaN
GreaterThanZero(a) == ~a.nan /\ a.v > 0

\* ------------------------------------------------------------ strings
EmptyStr == [k |-> "empty", v |-> 0]

NaNStr == [k |-> "nan", v |-> 0]

AmountStr(n) == [k |-> "num", v |-> n]

\* Number.prototype.toString() / toFixed(2): text of the number
NumberToText(a) == IF a.nan THEN NaNStr ELSE AmountStr(a.v)

\* lib/utils transformCurrencyStringToNumber: the amount a string denotes
transformCurrencyStringToNumber(s) == IF s.k = "num" THEN Num(s.v) ELSE NaN

\* lib/utils transformCurrencyNumberToString: the currency text of a number
transformCurrencyNumberToString(a) == IF a.nan THEN NaNStr ELSE AmountStr(a.v)

\* lib/utils validateCurrencyInput: the text is a currency amount (not negative)
validateCurrencyInput(s) == s.k = "num" /\ s.v >= 0

\* lib/utils applyCurrencyMaskReturningString: raw field text (<<>> when the
\* field was cleared, <<n>> when it holds the digits of n) to currency text
applyCurrencyMaskReturningString(raw) ==
  IF raw = <<>> THEN EmptyStr ELSE AmountStr(raw[1])

\* ------------------------------------------------------------ inputs
\* the route parameter params.id
ParamsId == "member-1"

\* Texts typed into the fields.  A currency or quantity field's raw text is
\* <<>> when the field was cleared and <<n>> when it holds the digits of n.
TypedNames == {"ab", "abc"}

TypedTypes == {"abc"}

TypedQuantities == {<<>>, <<0>>, <<2>>}

TypedListPrices == {<<2>>}

TypedDiscountPrices == {<<1>>, <<3>>}

TypedTotalValues == {<<>>, <<4>>}

TypedTotalSavings == {<<4>>}

TypedStatusIds == {3}

\* the narrower texts of the order-submission specification
OrderTypedNames == {"abc"}

OrderTypedQuantities == {<<2>>}

OrderTypedTotalValues == {<<1>>}

\* what sendRequest can resolve to
Responses ==
  {[error |-> FALSE, message |-> "created"],
   [error |-> TRUE, message |-> "rejected"]}

\* ------------------------------------------------------------ state
VARIABLES
  statusId, isRecurring, totalValue, totalSavings, items,
  isAddItemButtonDisabled,
  medicineName, medicineType, quantity, listPrice, discountPrice,
  isPostOrderButtonDisabled,
  mounted,        \* the first render's effects have run
  itemsDirty,     \* setItems installed a new array since the last render
  rendered,       \* dependency values seen by the last render
  nextId,         \* next uuid() value
  pc,             \* "form": page shown; "left": back() navigated away
  inFlight,       \* postOrder calls suspended at await sendRequest
  editsInFlight,  \* user events accepted since a request went out
  requests,       \* arguments of the sendRequest calls made
  responses,      \* values sendRequest resolved to
  uiLog,          \* toast() and back() calls, in call order
  lastEvent       \* the last event, [ev, id]: ev is "mount", "add", "remove",
                  \* "other" or "left"; id is the item id of an add or remove

formVars == <<medicineName, medicineType, quantity, listPrice, discountPrice>>

orderVars == <<statusId, isRecurring>>

netVars == <<inFlight, requests, responses, uiLog>>

vars == <<statusId, isRecurring, totalValue, totalSavings, items,
          isAddItemButtonDisabled, medicineName, medicineType, quantity,
          listPrice, discountPrice, isPostOrderButtonDisabled, mounted,
          itemsDirty, rendered, nextId, pc, inFlight, editsInFlight,
          requests, responses, uiLog, lastEvent>>

\* the values the effects' dependency arrays compare
Deps ==
  [medicineName |-> medicineName, medicineType |-> medicineType,
   quantity |-> quantity, listPrice |-> listPrice,
   discountPrice |-> discountPrice,
   totalValue |-> totalValue, totalSavings |-> totalSavings]

\* no render is pending: the page shows the current state and no effect is due
Settled == mounted /\ ~itemsDirty /\ rendered = Deps

\* the useState initial values
InitialState ==
  [statusId |-> 1, isRecurring |-> FALSE, totalValue |-> EmptyStr,
   totalSavings |-> EmptyStr, items |-> <<>>,
   isAddItemButtonDisabled |-> TRUE, medicineName |-> "",
   medicineType |-> "", quantity |-> Num(1), listPrice |-> EmptyStr,
   discountPrice |-> EmptyStr, isPostOrderButtonDisabled |-> TRUE]

Init ==
  /\ statusId = InitialState.statusId
  /\ isRecurring = InitialState.isRecurring
  /\ totalValue = InitialState.totalValue
  /\ totalSavings = InitialState.totalSavings
  /\ items = InitialState.items
  /\ isAddItemButtonDisabled = InitialState.isAddItemButtonDisabled
  /\ medicineName = InitialState.medicineName
  /\ medicineType = InitialState.medicineType
  /\ quantity = InitialState.quantity
  /\ listPrice = InitialState.listPrice
  /\ discountPrice = InitialState.discountPrice
  /\ isPostOrderButtonDisabled = InitialState.isPostOrderButtonDisabled
  /\ mounted = FALSE
  /\ itemsDirty = FALSE
  /\ rendered = Deps
  /\ nextId = 1
  /\ pc = "form"
  /\ inFlight = 0
  /\ editsInFlight = 0
  /\ requests = <<>>
  /\ responses = <<>>
  /\ uiLog = <<>>
  /\ lastEvent = [ev |-> "mount", id |-> 0]

\* ------------------------------------------------------------ derived values
\* the list total with the quantity left out of the product
RECURSIVE ItemsListTotalNoQuantity(_)
ItemsListTotalNoQuantity(its) ==
  IF its = <<>> THEN Num(0)
  ELSE NumAdd(ItemsListTotalNoQuantity(SubSeq(its, 1, Len(its) - 1)),
              its[Len(its)].listPrice)

\* items.reduce((acc, item) => acc + (item.quantity * item.listPrice), 0)
RECURSIVE ItemsListTotal(_)
ItemsListTotal(its) ==
  IF its = <<>> THEN Num(0)
  ELSE NumAdd(ItemsListTotal(SubSeq(its, 1, Len(its) - 1)),
              NumMul(its[Len(its)].quantity, its[Len(its)].listPrice))

\* items.reduce((acc, item) => acc + (item.quantity * item.discountPrice), 0)
RECURSIVE ItemsDiscountTotal(_)
ItemsDiscountTotal(its) ==
  IF its = <<>> THEN Num(0)
  ELSE NumAdd(ItemsDiscountTotal(SubSeq(its, 1, Len(its) - 1)),
              NumMul(its[Len(its)].quantity, its[Len(its)].discountPrice))

\* parseInt(e.target.value.replace(/[^\d.]/g, '')) of the quantity field
ParseQuantity(raw) == IF raw = <<>> THEN NaN ELSE Num(raw[1])

\* the item check with the length bound of newOrderItemFormSchema (min 1)
validateOrderItemMinOne(orderFields) ==
  /\ Len(orderFields.medicineName) >= 1
  /\ Len(orderFields.medicineType) >= 1
  /\ GreaterThanZero(orderFields.quantity)
  /\ Truthy(orderFields.listPrice)
  /\ validateCurrencyInput(transformCurrencyNumberToString(orderFields.listPrice))
  /\ Truthy(orderFields.discountPrice)
  /\ validateCurrencyInput(transformCurrencyNumberToString(orderFields.discountPrice))

validateOrderItem(orderFields) ==
  /\ Len(orderFields.medicineName) >= 3
  /\ Len(orderFields.medicineType) >= 3
  /\ GreaterThanZero(orderFields.quantity)
  /\ Truthy(orderFields.listPrice)
  /\ validateCurrencyInput(transformCurrencyNumberToString(orderFields.listPrice))
  /\ Truthy(orderFields.discountPrice)
  /\ validateCurrencyInput(transformCurrencyNumberToString(orderFields.discountPrice))

\* the order check without the test that the list has an item
validateOrderAnyLength(order) ==
  /\ Len(order.memberId) > 0
  /\ Truthy(order.totalValue)
  /\ validateCurrencyInput(transformCurrencyNumberToString(order.totalValue))
  /\ Truthy(order.totalSavings)
  /\ validateCurrencyInput(transformCurrencyNumberToString(order.totalSavings))
  /\ \A i \in 1..Len(order.items) : validateOrderItem(order.items[i])

\* the order check with totalSavings tested for truthiness only
validateOrderSavingsUnchecked(order) ==
  /\ Len(order.memberId) > 0
  /\ Truthy(order.totalValue)
  /\ validateCurrencyInput(transformCurrencyNumberToString(order.totalValue))
  /\ Truthy(order.totalSavings)
  /\ Len(order.items) > 0
  /\ \A i \in 1..Len(order.items) : validateOrderItem(order.items[i])

validateOrder(order) ==
  /\ Len(order.memberId) > 0
  /\ Truthy(order.totalValue)
  /\ validateCurrencyInput(transformCurrencyNumberToString(order.totalValue))
  /\ Truthy(order.totalSavings)
  /\ validateCurrencyInput(transformCurrencyNumberToString(order.totalSavings))
  /\ Len(order.items) > 0
  /\ \A i \in 1..Len(order.items) : validateOrderItem(order.items[i])

\* ------------------------------------------------------------ effects
\* "Valida item": dependencies and the value it sets
ValidaItemDue ==
  \/ ~mounted
  \/ rendered.medicineName # medicineName
  \/ rendered.medicineType # medicineType
  \/ rendered.quantity # quantity
  \/ rendered.listPrice # listPrice
  \/ rendered.discountPrice # discountPrice

ValidaItemValue ==
  ~validateOrderItem(
     [medicineName |-> medicineName, medicineType |-> medicineType,
      quantity |-> quantity,
      listPrice |-> transformCurrencyStringToNumber(listPrice),
      discountPrice |-> transformCurrencyStringToNumber(discountPrice)])

\* "Valida pedido"
ValidaPedidoDue ==
  \/ ~mounted
  \/ rendered.totalValue # totalValue
  \/ rendered.totalSavings # totalSavings
  \/ itemsDirty

ValidaPedidoValue ==
  ~validateOrder(
     [memberId |-> ParamsId,
      totalValue |-> transformCurrencyStringToNumber(totalValue),
      totalSavings |-> transformCurrencyStringToNumber(totalSavings),
      items |-> items])

\* "Atualiza totalValue"
AtualizaTotalValueDue == ~mounted \/ itemsDirty

AtualizaTotalValueValue == NumberToText(ItemsListTotal(items))

\* "Atualiza totalSavings"
AtualizaTotalSavingsDue == ~mounted \/ rendered.totalValue # totalValue

AtualizaTotalSavingsValue ==
  NumberToText(NumSub(transformCurrencyStringToNumber(totalValue),
                      ItemsDiscountTotal(items)))

\* One render and the effects it triggers.
Render ==
  /\ pc = "form"
  /\ ~Settled
  /\ isAddItemButtonDisabled' =
       IF ValidaItemDue THEN ValidaItemValue ELSE isAddItemButtonDisabled
  /\ isPostOrderButtonDisabled' =
       IF ValidaPedidoDue THEN ValidaPedidoValue ELSE isPostOrderButtonDisabled
  /\ totalValue' =
       IF AtualizaTotalValueDue THEN AtualizaTotalValueValue ELSE totalValue
  /\ totalSavings' =
       IF AtualizaTotalSavingsDue THEN AtualizaTotalSavingsValue ELSE totalSavings
  /\ rendered' = Deps
  /\ itemsDirty' = FALSE
  /\ mounted' = TRUE
  /\ UNCHANGED <<formVars, orderVars, items, nextId, pc, netVars,
                 editsInFlight, lastEvent>>

\* ------------------------------------------------------------ user events
UserCanAct ==
  /\ pc = "form"
  /\ Settled
  /\ inFlight > 0 => editsInFlight < MaxEditsInFlight

Dispatched(ev, id) ==
  /\ lastEvent' = [ev |-> ev, id |-> id]
  /\ editsInFlight' = IF inFlight > 0 THEN editsInFlight + 1 ELSE editsInFlight

renderVars == <<mounted, itemsDirty, rendered>>

buttonVars == <<isAddItemButtonDisabled, isPostOrderButtonDisabled>>

SetIsRecurring(e) ==
  /\ UserCanAct
  /\ isRecurring' = e
  /\ Dispatched("other", 0)
  /\ UNCHANGED <<statusId, totalValue, totalSavings, items, formVars,
                 buttonVars, renderVars, nextId, pc, netVars>>

SetStatusId(e) ==
  /\ UserCanAct
  /\ statusId' = e
  /\ Dispatched("other", 0)
  /\ UNCHANGED <<isRecurring, totalValue, totalSavings, items, formVars,
                 buttonVars, renderVars, nextId, pc, netVars>>

ChangeTotalValue(raw) ==
  /\ UserCanAct
  /\ totalValue' = applyCurrencyMaskReturningString(raw)
  /\ Dispatched("other", 0)
  /\ UNCHANGED <<orderVars, totalSavings, items, formVars,
                 buttonVars, renderVars, nextId, pc, netVars>>

ChangeTotalSavings(raw) ==
  /\ UserCanAct
  /\ totalSavings' = applyCurrencyMaskReturningString(raw)
  /\ Dispatched("other", 0)
  /\ UNCHANGED <<orderVars, totalValue, items, formVars,
                 buttonVars, renderVars, nextId, pc, netVars>>

ChangeMedicineName(e) ==
  /\ UserCanAct
  /\ medicineName' = e
  /\ Dispatched("other", 0)
  /\ UNCHANGED <<orderVars, totalValue, totalSavings, items, medicineType,
                 quantity, listPrice, discountPrice,
                 buttonVars, renderVars, nextId, pc, netVars>>

ChangeMedicineType(e) ==
  /\ UserCanAct
  /\ medicineType' = e
  /\ Dispatched("other", 0)
  /\ UNCHANGED <<orderVars, totalValue, totalSavings, items, medicineName,
                 quantity, listPrice, discountPrice,
                 buttonVars, renderVars, nextId, pc, netVars>>

ChangeQuantity(raw) ==
  /\ UserCanAct
  /\ quantity' = ParseQuantity(raw)
  /\ Dispatched("other", 0)
  /\ UNCHANGED <<orderVars, totalValue, totalSavings, items, medicineName,
                 medicineType, listPrice, discountPrice,
                 buttonVars, renderVars, nextId, pc, netVars>>

ChangeListPrice(raw) ==
  /\ UserCanAct
  /\ listPrice' = applyCurrencyMaskReturningString(raw)
  /\ Dispatched("other", 0)
  /\ UNCHANGED <<orderVars, totalValue, totalSavings, items, medicineName,
                 medicineType, quantity, discountPrice,
                 buttonVars, renderVars, nextId, pc, netVars>>

ChangeDiscountPrice(raw) ==
  /\ UserCanAct
  /\ discountPrice' = applyCurrencyMaskReturningString(raw)
  /\ Dispatched("other", 0)
  /\ UNCHANGED <<orderVars, totalValue, totalSavings, items, medicineName,
                 medicineType, quantity, listPrice,
                 buttonVars, renderVars, nextId, pc, netVars>>

\* the reset with the quantity field left as typed
resetItemFormKeepQuantity ==
  /\ medicineName' = ""
  /\ medicineType' = ""
  /\ quantity' = quantity
  /\ listPrice' = EmptyStr
  /\ discountPrice' = EmptyStr

resetItemForm ==
  /\ medicineName' = ""
  /\ medicineType' = ""
  /\ quantity' = Num(1)
  /\ listPrice' = EmptyStr
  /\ discountPrice' = EmptyStr

\* the Cancelar button of the item dialog
CancelItem ==
  /\ UserCanAct
  /\ resetItemForm
  /\ Dispatched("other", 0)
  /\ UNCHANGED <<orderVars, totalValue, totalSavings, items,
                 buttonVars, renderVars, nextId, pc, netVars>>

\* the item addItemToOrder builds from the item form
NewItem(id) ==
  [medicineName |-> medicineName, medicineType |-> medicineType,
   quantity |-> quantity,
   listPrice |-> transformCurrencyStringToNumber(listPrice),
   discountPrice |-> transformCurrencyStringToNumber(discountPrice),
   id |-> id]

\* the Inserir button of the item dialog
addItemToOrder ==
  /\ UserCanAct
  /\ ~isAddItemButtonDisabled
  /\ nextId <= MaxIds
  /\ items' = Append(items, NewItem(nextId))
  /\ nextId' = nextId + 1
  /\ itemsDirty' = TRUE
  /\ resetItemForm
  /\ Dispatched("add", nextId)
  /\ UNCHANGED <<orderVars, totalValue, totalSavings, buttonVars,
                 mounted, rendered, pc, netVars>>

\* the filter with the comparison inverted (=== for !==)
RECURSIVE FilterKeepId(_, _)
FilterKeepId(its, id) ==
  IF its = <<>> THEN <<>>
  ELSE IF its[1].id # id THEN FilterKeepId(Tail(its), id)
       ELSE <<its[1]>> \o FilterKeepId(Tail(its), id)

\* prev.filter((item) => item.id !== id)
RECURSIVE FilterOutId(_, _)
FilterOutId(its, id) ==
  IF its = <<>> THEN <<>>
  ELSE IF its[1].id = id THEN FilterOutId(Tail(its), id)
       ELSE <<its[1]>> \o FilterOutId(Tail(its), id)

\* items.find((item) => item.id === id)?.listPrice || 0
FoundListPrice(its, id) ==
  IF \E i \in 1..Len(its) : its[i].id = id
    THEN LET i == CHOOSE j \in 1..Len(its) :
                    /\ its[j].id = id
                    /\ \A h \in 1..(j - 1) : its[h].id # id
             p == its[i].listPrice
         IN IF Truthy(p) THEN p ELSE Num(0)
    ELSE Num(0)

\* the "Remover item" button of the listed item id
removeItemFromOrder(id) ==
  /\ UserCanAct
  /\ \E i \in 1..Len(items) : items[i].id = id
  /\ items' = FilterOutId(items, id)
  /\ itemsDirty' = TRUE
  /\ totalValue' =
       transformCurrencyNumberToString(
         NumSub(transformCurrencyStringToNumber(
                  IF totalValue = EmptyStr THEN AmountStr(0) ELSE totalValue),
                FoundListPrice(items, id)))
  /\ Dispatched("remove", id)
  /\ UNCHANGED <<orderVars, totalSavings, formVars, buttonVars,
                 mounted, rendered, nextId, pc, netVars>>

\* ------------------------------------------------------------ postOrder
\* the payload with the two totals exchanged
newOrderDataSwapped ==
  [memberId |-> ParamsId, statusId |-> statusId, isRecurring |-> isRecurring,
   items |-> items,
   totalSavings |-> transformCurrencyStringToNumber(totalValue),
   totalValue |-> transformCurrencyStringToNumber(totalSavings)]

\* the argument of sendRequest
newOrderData ==
  [memberId |-> ParamsId, statusId |-> statusId, isRecurring |-> isRecurring,
   items |-> items,
   totalSavings |-> transformCurrencyStringToNumber(totalSavings),
   totalValue |-> transformCurrencyStringToNumber(totalValue)]

\* submit of the form: postOrder up to its await
postOrder ==
  /\ pc = "form"
  /\ Settled
  /\ ~isPostOrderButtonDisabled
  /\ Len(requests) < MaxSubmits
  /\ requests' = Append(requests,
       [endpoint |-> "/order", method |-> "POST", data |-> newOrderData])
  /\ inFlight' = inFlight + 1
  /\ lastEvent' = [ev |-> "other", id |-> 0]
  /\ UNCHANGED editsInFlight
  /\ UNCHANGED <<orderVars, totalValue, totalSavings, items, formVars,
                 buttonVars, renderVars, nextId, pc, responses, uiLog>>

\* the toast with the variant of the else branch in both branches
ToastAlwaysSuccess(response) ==
  [kind |-> "toast", description |-> response.message, variant |-> "success"]

\* the toast postOrder shows for a response
ToastFor(response) ==
  [kind |-> "toast", description |-> response.message,
   variant |-> IF response.error THEN "destructive" ELSE "success"]

BackCall == [kind |-> "back", description |-> "", variant |-> ""]

\* back() leaves the page: the component unmounts and its state is dropped
Unmount ==
  /\ pc' = "left"
  /\ statusId' = InitialState.statusId
  /\ isRecurring' = InitialState.isRecurring
  /\ totalValue' = InitialState.totalValue
  /\ totalSavings' = InitialState.totalSavings
  /\ items' = InitialState.items
  /\ isAddItemButtonDisabled' = InitialState.isAddItemButtonDisabled
  /\ medicineName' = InitialState.medicineName
  /\ medicineType' = InitialState.medicineType
  /\ quantity' = InitialState.quantity
  /\ listPrice' = InitialState.listPrice
  /\ discountPrice' = InitialState.discountPrice
  /\ isPostOrderButtonDisabled' = InitialState.isPostOrderButtonDisabled
  /\ mounted' = FALSE
  /\ itemsDirty' = FALSE
  /\ rendered' = [medicineName |-> InitialState.medicineName,
                  medicineType |-> InitialState.medicineType,
                  quantity |-> InitialState.quantity,
                  listPrice |-> InitialState.listPrice,
                  discountPrice |-> InitialState.discountPrice,
                  totalValue |-> InitialState.totalValue,
                  totalSavings |-> InitialState.totalSavings]
  /\ nextId' = 1
  /\ editsInFlight' = 0
  /\ lastEvent' = [ev |-> "left", id |-> 0]

\* sendRequest resolves: postOrder after its await
postOrderResume(response) ==
  /\ inFlight > 0
  /\ inFlight' = inFlight - 1
  /\ responses' = Append(responses, response)
  /\ uiLog' = uiLog \o <<ToastFor(response), BackCall>>
  /\ Unmount
  /\ UNCHANGED requests

Next ==
  \/ Render
  \/ \E e \in BOOLEAN : SetIsRecurring(e)
  \/ \E e \in TypedStatusIds : SetStatusId(e)
  \/ \E raw \in TypedTotalValues \cup OrderTypedTotalValues :
       ChangeTotalValue(raw)
  \/ \E raw \in TypedTotalSavings : ChangeTotalSavings(raw)
  \/ \E e \in TypedNames : ChangeMedicineName(e)
  \/ \E e \in TypedTypes : ChangeMedicineType(e)
  \/ \E raw \in TypedQuantities : ChangeQuantity(raw)
  \/ \E raw \in TypedListPrices : ChangeListPrice(raw)
  \/ \E raw \in TypedDiscountPrices : ChangeDiscountPrice(raw)
  \/ CancelItem
  \/ addItemToOrder
  \/ \E id \in 1..MaxIds : removeItemFromOrder(id)
  \/ postOrder
  \/ \E response \in Responses : postOrderResume(response)

\* the whole page
Spec == Init /\ [][Next]_vars

\* The item dialog, the item list and the two totals: every text above is
\* typed, the order's status and recurrence stay as constructed and the form
\* is not submitted.
NextItems ==
  \/ Render
  \/ \E raw \in TypedTotalValues : ChangeTotalValue(raw)
  \/ \E raw \in TypedTotalSavings : ChangeTotalSavings(raw)
  \/ \E e \in TypedNames : ChangeMedicineName(e)
  \/ \E e \in TypedTypes : ChangeMedicineType(e)
  \/ \E raw \in TypedQuantities : ChangeQuantity(raw)
  \/ \E raw \in TypedListPrices : ChangeListPrice(raw)
  \/ \E raw \in TypedDiscountPrices : ChangeDiscountPrice(raw)
  \/ CancelItem
  \/ addItemToOrder
  \/ \E id \in 1..MaxIds : removeItemFromOrder(id)

SpecItems == Init /\ [][NextItems]_vars

\* The order as a whole, submitted and answered: every handler of the page,
\* with the narrower texts for the item dialog.
NextOrder ==
  \/ Render
  \/ \E e \in BOOLEAN : SetIsRecurring(e)
  \/ \E e \in TypedStatusIds : SetStatusId(e)
  \/ \E raw \in OrderTypedTotalValues : ChangeTotalValue(raw)
  \/ \E raw \in TypedTotalSavings : ChangeTotalSavings(raw)
  \/ \E e \in OrderTypedNames : ChangeMedicineName(e)
  \/ \E e \in TypedTypes : ChangeMedicineType(e)
  \/ \E raw \in OrderTypedQuantities : ChangeQuantity(raw)
  \/ \E raw \in TypedListPrices : ChangeListPrice(raw)
  \/ \E raw \in TypedDiscountPrices : ChangeDiscountPrice(raw)
  \/ CancelItem
  \/ addItemToOrder
  \/ \E id \in 1..MaxIds : removeItemFromOrder(id)
  \/ postOrder
  \/ \E response \in Responses : postOrderResume(response)

SpecOrder == Init /\ [][NextOrder]_vars

\* ------------------------------------------------------------ claims
\* the page is shown and no render or effect is pending
Shown == pc = "form" /\ Settled

\* an item as the claims describe a valid one
ItemIsValid(item) ==
  /\ Len(item.medicineName) >= 3
  /\ Len(item.medicineType) >= 3
  /\ ~item.quantity.nan /\ item.quantity.v > 0
  /\ ~item.listPrice.nan /\ item.listPrice.v > 0
  /\ ~item.discountPrice.nan /\ item.discountPrice.v > 0

\* the item form as the claims describe a valid one
FormIsValid ==
  /\ Len(medicineName) >= 3
  /\ Len(medicineType) >= 3
  /\ ~quantity.nan /\ quantity.v > 0
  /\ listPrice.k = "num" /\ listPrice.v > 0
  /\ discountPrice.k = "num" /\ discountPrice.v > 0

\* sum over the list of quantity x listPrice, as an integer
RECURSIVE SumListValue(_)
SumListValue(its) ==
  IF its = <<>> THEN 0
  ELSE its[1].quantity.v * its[1].listPrice.v + SumListValue(Tail(its))

\* sum over the list of quantity x discountPrice, as an integer
RECURSIVE SumDiscountValue(_)
SumDiscountValue(its) ==
  IF its = <<>> THEN 0
  ELSE its[1].quantity.v * its[1].discountPrice.v + SumDiscountValue(Tail(its))

ItemIds == {items[i].id : i \in 1..Len(items)}

\* the list without its i-th item
WithoutIndex(its, i) == SubSeq(its, 1, i - 1) \o SubSeq(its, i + 1, Len(its))

\* the step is the dispatch of an add / of a remove
AddStep == ~itemsDirty /\ itemsDirty' /\ lastEvent'.ev = "add"

RemoveStep == ~itemsDirty /\ itemsDirty' /\ lastEvent'.ev = "remove"

\* C1: once the effects have settled after the page was mounted, an item was
\* added or an item was removed, totalValue is the text of the sum over the
\* current items of quantity x listPrice (0 for the empty list).
C1_TotalValueIsListSum ==
  (Shown /\ lastEvent.ev \in {"mount", "add", "remove"})
    => totalValue = AmountStr(SumListValue(items))

\* C1 witness: an item of quantity 2 was removed from a two-item list and the
\* settled total is what the remaining item of quantity 2 is worth.
C1_Witness ==
  /\ Shown
  /\ lastEvent.ev = "remove"
  /\ Len(items) = 1
  /\ items[1].quantity = Num(2)
  /\ totalValue = AmountStr(4)

\* C2: in every settled state the submit button is enabled exactly when the
\* route id is non-empty, both totals are non-zero valid amounts, the list is
\* non-empty and every item is valid; before the first effects ran it is
\* disabled.
C2_SubmitEnabledIffOrderValid ==
  /\ (pc = "form" /\ ~mounted) => isPostOrderButtonDisabled
  /\ Shown =>
       (~isPostOrderButtonDisabled <=>
          /\ Len(ParamsId) > 0
          /\ totalValue.k = "num" /\ totalValue.v > 0
          /\ totalSavings.k = "num" /\ totalSavings.v > 0
          /\ Len(items) > 0
          /\ \A i \in 1..Len(items) : ItemIsValid(items[i]))

\* C2 witness: the button is enabled for a two-item order.
C2_Witness == Shown /\ ~isPostOrderButtonDisabled /\ Len(items) = 2

\* C3: every item of the list is valid, and in every settled state the
\* Inserir button is disabled exactly when the item form is invalid.
C3_ItemsValidAndInserirGuarded ==
  /\ \A i \in 1..Len(items) : ItemIsValid(items[i])
  /\ Shown => (isAddItemButtonDisabled <=> ~FormIsValid)

\* C3 witness: an item is in the list and the form is filled validly again.
C3_Witness == Shown /\ Len(items) >= 1 /\ ~isAddItemButtonDisabled

C5_SubmitSendsTheForm ==
  [][(Len(requests') # Len(requests) \/ inFlight' > inFlight) =>
       /\ inFlight' = inFlight + 1
       /\ totalValue.k = "num" /\ totalSavings.k = "num"
       /\ requests' = Append(requests,
            [endpoint |-> "/order", method |-> "POST",
             data |-> [memberId |-> ParamsId, statusId |-> statusId,
                       isRecurring |-> isRecurring, items |-> items,
                       totalSavings |-> Num(totalSavings.v),
                       totalValue |-> Num(totalValue.v)]])]_vars

\* C5 witness: an order with status 3, recurring, with two items was sent.
C5_Witness ==
  /\ Len(requests) = 1
  /\ requests[1].data.statusId = 3
  /\ requests[1].data.isRecurring
  /\ Len(requests[1].data.items) = 2
  /\ requests[1].data.totalSavings # requests[1].data.totalValue

C7_SavingsFollowItemChange ==
  (Shown /\ lastEvent.ev \in {"add", "remove"} /\ totalValue.k = "num")
    => totalSavings = AmountStr(totalValue.v - SumDiscountValue(items))

\* C8: an add appends one item built from the form, with the prices as numbers,
\* at the end of the list and resets the form to its defaults; once the
\* effects have settled after an add the Inserir button is disabled.
C8_AddAppendsAndResets ==
  /\ [][AddStep =>
          /\ listPrice.k = "num" /\ discountPrice.k = "num"
          /\ items' = Append(items,
               [medicineName |-> medicineName, medicineType |-> medicineType,
                quantity |-> quantity, listPrice |-> Num(listPrice.v),
                discountPrice |-> Num(discountPrice.v),
                id |-> lastEvent'.id])
          /\ medicineName' = "" /\ medicineType' = ""
          /\ quantity' = Num(1)
          /\ listPrice' = EmptyStr /\ discountPrice' = EmptyStr]_vars
  /\ []((Shown /\ lastEvent.ev = "add") => isAddItemButtonDisabled)

\* C8 witness: a second item was appended and the effects have settled.
C8_Witness ==
  /\ Shown
  /\ lastEvent.ev = "add"
  /\ Len(items) = 2
  /\ items[2].id = lastEvent.id
  /\ items[2].quantity = Num(2)
  /\ isAddItemButtonDisabled

====
